---- MODULE Spec2Model ----
(***************************************************************************)
(* Streaming inference client of nesa/backend/llms.py.                     *)
(*                                                                         *)
(*   Spec      the HTTP transport (stream_message_handler) driven by the   *)
(*             sync bridge (process_stream_sync.sync_generator)            *)
(*   SpecNats  the broker transport (nats_message_handler) against a       *)
(*             JetStream pull consumer                                     *)
(***************************************************************************)
EXTENDS Integers, Sequences, FiniteSets, TLC

(* ---- bounds of the model ---- *)
MaxFrames == 3
ClockStep == 31
MaxNow == 93
MaxExtraNext == 1
MaxMsgs == 2
MaxTimeouts == 2

(* ---- program constants ---- *)
timeout == 60
(* Variant of max_deliver: one delivery more. *)
max_deliverBug == 3 + 1

max_deliver == 3

(* Variant of deliver_policy: only messages published after the consumer
   was created. *)
deliver_policyBug == "new"

(* llms.py:99: deliver_policy=js_api.DeliverPolicy.ALL *)
deliver_policy == "all"

VARIABLES
  (* HTTP transport: stream_message_handler *)
  hpc,                    \* position of the async generator
  received,               \* the chunks response.iter_raw() has produced so far
  first_message_received, \* llms.py:50
  start_time,             \* llms.py:49
  now,                    \* asyncio.get_event_loop().time()
  responseOpen,           \* the httpx.stream(...) context is entered and not exited
  responseClosedBy,       \* "none", "with" (context exit) or "gc"
  hyield,                 \* what the handler has yielded: a frame position, or NoData
  (* sync bridge: process_stream_sync.sync_generator *)
  bpc,                    \* position of the sync generator
  loopState,              \* "none", "open", "closed": the private event loop
  loopCloses,             \* number of loop.close() calls
  out,                    \* what the sync generator has yielded to the caller
  error,                  \* the exception that reached the caller, or "none"
  extraNext,              \* next() calls made after the generator finished
  httpStatus,             \* what opening the stream met: "ok", "error", "unreachable"
  (* broker transport: nats_message_handler *)
  npc,                    \* position of the async generator
  ncOpen,                 \* nc is connected and not closed
  ncCloses,               \* number of nc.close() calls
  subBound,               \* the local `sub` is bound (llms.py:109)
  unsubs,                 \* number of sub.unsubscribe() calls
  cur,                    \* the message the handler is suspended on, or 0
  nyield,                 \* what the handler has yielded: message positions
  nerror,                 \* the exception that left the handler, or "none"
  timeouts,               \* consecutive pull timeouts
  (* the broker: result stream and the request's consumer *)
  requested,              \* the request is in the work stream
  msgs,                   \* result messages under the request's correlation id
  consumerExists,         \* add_consumer has created the consumer
  createdAt,              \* messages in the stream when the consumer was created
  deliveries,             \* per message: times delivered to the consumer
  pending,                \* delivered, not acked, ack_wait running
  redeliver,              \* ack_wait expired, waiting to be delivered again
  acked,                  \* acknowledged
  (* DistributedLLM.perform_inference *)
  ipc,                    \* position of the generator
  model_name,             \* the logical model name it was called with
  inf_request,            \* the LLMInference it built, or NoRequest
  issued,                 \* the ids uuid.uuid4() has returned so far
  ierror,                 \* the exception that left it, or "none"
  (* calls of the pure functions *)
  call,                   \* the function called and its arguments
  returned,               \* what it returned, or Pending
  (* two concurrent calls of nats_message_handler, per request *)
  rpc,                    \* position of the handler
  ragent,                 \* its agent_uuid, 0 before llms.py:81
  rnode,                  \* its node_id, 0 before llms.py:82
  rcorr,                  \* inf_request.correlation_id
  rconn,                  \* its connection nc, 0 before nats.connect
  rsub,                   \* the consumer its subscription is bound to, or 0
  ryield,                 \* the result messages it has yielded
  (* the broker they share *)
  connections,            \* per connection: "open" or "closed"
  consumers,              \* per consumer name: its filter subject, or NoFilter
  requests,               \* the work stream
  results,                \* the result stream
  cdelivered              \* per consumer name: the messages delivered to it

httpVars == <<hpc, received, first_message_received, start_time, now, responseOpen,
              responseClosedBy, hyield, bpc, loopState, loopCloses, out, error,
              extraNext, httpStatus>>

natsVars == <<npc, ncOpen, ncCloses, subBound, unsubs, cur, nyield, nerror,
              timeouts, requested, msgs, consumerExists, createdAt, deliveries, pending,
              redeliver, acked>>

inferVars == <<ipc, model_name, inf_request, issued, ierror>>

pureVars == <<call, returned>>

concVars == <<rpc, ragent, rnode, rcorr, rconn, connections, consumers, rsub,
              requests, results, cdelivered, ryield>>

vars == <<httpVars, natsVars, inferVars, pureVars, concVars>>

(* What a step of one component leaves alone. *)
notHttp == <<natsVars, inferVars, pureVars, concVars>>
notNats == <<httpVars, inferVars, pureVars, concVars>>
notInfer == <<httpVars, natsVars, pureVars, concVars>>
notPure == <<httpVars, natsVars, inferVars, concVars>>
notConc == <<httpVars, natsVars, inferVars, pureVars>>

(* The 'no data' signal: the handler yields None (llms.py:69). *)
NoData == 0

(* A chunk of the raw stream, by what lines 53-64 make of it:
     blank  chunk.strip() is empty
     bad    msgspec.json.decode raises
     empty  decodes, but choices is empty: choices[0] raises IndexError
     data   decodes, finish_reason empty
     fin    decodes, finish_reason non-empty
   The delta.content of the frame at position i is identified with i. *)
ChunkKinds == {"blank", "bad", "empty", "data", "fin"}

(* msgspec.json.decode(chunk, type=InferenceResponse), llms.py:56 *)
Decodes(kind) == kind \in {"empty", "data", "fin"}

(* inf_response.choices[0].finish_reason, llms.py:61 *)
HasFinishReason(kind) == kind = "fin"

(* The sync generator is in a final position. *)
BridgeEnded == bpc \in {"exhausted", "closed", "failed"}

HttpInit ==
  /\ hpc = "init"
  /\ received = <<>>
  /\ first_message_received = FALSE
  /\ start_time = 0
  /\ now = 0
  /\ responseOpen = FALSE
  /\ responseClosedBy = "none"
  /\ hyield = <<>>
  /\ bpc = "created"
  /\ loopState = "none"
  /\ loopCloses = 0
  /\ out = <<>>
  /\ error = "none"
  /\ extraNext = 0
  /\ httpStatus = "none"

(* ---- sync_generator: what the bridge does with the handler's outcome ---- *)

(* Variant of BridgeFinally: loop.close() after the loop of lines 169-171
   only, not in a finally. *)
BridgeFinallyBug(pos, err) ==
  /\ bpc' = pos
  /\ IF pos = "exhausted"
     THEN loopState' = "closed" /\ loopCloses' = loopCloses + 1
     ELSE UNCHANGED <<loopState, loopCloses>>
  /\ error' = err

(* finally: loop.close(), llms.py:174-175, leaving the generator in `pos`. *)
BridgeFinally(pos, err) ==
  /\ bpc' = pos
  /\ loopState' = "closed"
  /\ loopCloses' = loopCloses + 1
  /\ error' = err

(* gen.__anext__() returned `content`: yield tokenizer.decode(content),
   llms.py:170-171.  decode either returns or raises. *)
BridgeYield(content, decodeOk) ==
  IF decodeOk
  THEN /\ bpc' = "suspended"
       /\ out' = Append(out, content)
       /\ UNCHANGED <<loopState, loopCloses, error>>
  ELSE /\ BridgeFinally("failed", "DecodeError")
       /\ out' = out

(* gen.__anext__() raised StopAsyncIteration: return, llms.py:172-175. *)
BridgeExhausted ==
  /\ BridgeFinally("exhausted", "none")
  /\ out' = out

(* gen.__anext__() raised another exception: it propagates, llms.py:174-175. *)
BridgeRaised(err) ==
  /\ BridgeFinally("failed", err)
  /\ out' = out

(* ---- the caller of the sync generator ---- *)

(* next(): on the first call the generator body starts (llms.py:165-168),
   later calls resume it after the yield of line 171; either way it goes on
   to loop.run_until_complete(gen.__anext__()).  A handler suspended at one
   of its yields (llms.py:64, 69) goes back to the for loop of line 52. *)
CallerNext ==
  /\ bpc \in {"created", "suspended"}
  /\ bpc' = "pumping"
  /\ loopState' = "open"
  /\ hpc' = IF hpc \in {"yielded", "yieldedNone"} THEN "reading" ELSE hpc
  /\ UNCHANGED <<received, first_message_received, start_time, now, responseOpen,
                 responseClosedBy, hyield, loopCloses, out, error, extraNext, httpStatus>>

(* close() on the sync generator.  Suspended at line 171, GeneratorExit runs
   the finally of lines 174-175 and nothing else: gen is not closed, so the
   handler stays suspended inside its `with` block.  A generator that was
   never started has no loop and runs no code. *)
CallerClose ==
  /\ bpc \in {"created", "suspended"}
  /\ IF bpc = "suspended"
     THEN BridgeFinally("closed", "none")
     ELSE /\ bpc' = "closed"
          /\ UNCHANGED <<loopState, loopCloses, error>>
  /\ UNCHANGED <<hpc, received, first_message_received, start_time, now,
                 responseOpen, responseClosedBy, hyield, out, extraNext, httpStatus>>

(* next() on a finished generator: StopIteration, nothing runs. *)
CallerNextAfterEnd ==
  /\ BridgeEnded
  /\ extraNext < MaxExtraNext
  /\ extraNext' = extraNext + 1
  /\ UNCHANGED <<hpc, received, first_message_received, start_time, now,
                 responseOpen, responseClosedBy, hyield, bpc, loopState,
                 loopCloses, out, error, httpStatus>>

(* ---- stream_message_handler ---- *)

(* llms.py:71-73 on the HTTPStatusError of raise_for_status: the print of
   line 72 reads e.response.text of a streamed response whose body was never
   read, which raises httpx.ResponseNotRead inside the except clause; line
   73 is not reached and ResponseNotRead is what leaves the handler. *)
StatusErrorRaised == "ResponseNotRead"

(* llms.py:45-50: open the stream, raise_for_status, start the clock.
     ok       a 2xx response
     status   an error status: raise_for_status raises HTTPStatusError, the
              `with` exits, and the except clause of lines 71-73 runs
     connect  httpx.stream itself raises: lines 74-76 re-raise *)
HttpOpen(result) ==
  /\ bpc = "pumping"
  /\ hpc = "init"
  /\ CASE result = "ok" ->
            /\ hpc' = "reading"
            /\ httpStatus' = "ok"
            /\ responseOpen' = TRUE
            /\ start_time' = now
            /\ first_message_received' = FALSE
            /\ UNCHANGED <<responseClosedBy, bpc, loopState, loopCloses, out, error>>
       [] result = "status" ->
            /\ hpc' = "raised"
            /\ httpStatus' = "error"
            /\ responseOpen' = FALSE
            /\ responseClosedBy' = "with"
            /\ BridgeRaised(StatusErrorRaised)
            /\ UNCHANGED <<start_time, first_message_received>>
       [] OTHER ->
            /\ hpc' = "raised"
            /\ httpStatus' = "unreachable"
            /\ BridgeRaised("TransportError")
            /\ UNCHANGED <<responseOpen, responseClosedBy, start_time,
                           first_message_received>>
  /\ UNCHANGED <<received, now, hyield, extraNext>>

(* Variant of TimeoutGuard: the deadline alone, without the flag. *)
TimeoutGuardBug(first) == now - start_time > timeout

(* The guard of line 68, evaluated with the flag as lines 58-59 left it. *)
TimeoutGuard(first) == ~first /\ now - start_time > timeout

(* Variant of SkipFrame: the exception of a failed decode is not caught by
   line 65 and leaves the handler through lines 74-76. *)
SkipFrameBug(kind, first, decodeOk) ==
  IF kind = "blank"
  THEN /\ hpc' = "reading"
       /\ UNCHANGED <<hyield, responseOpen, responseClosedBy, bpc, loopState,
                      loopCloses, out, error>>
  ELSE /\ hpc' = "raised"
       /\ responseOpen' = FALSE
       /\ responseClosedBy' = "with"
       /\ hyield' = hyield
       /\ BridgeRaised("TransportError")

(* Lines 65-69 for a chunk that yielded nothing: it was blank, or the
   exception of its decode was caught and printed (line 66).  The guard of
   line 68 then either yields None, staying in the loop, or goes on. *)
SkipFrame(kind, first, decodeOk) ==
  IF TimeoutGuard(first)
  THEN /\ hpc' = "yieldedNone"
       /\ hyield' = Append(hyield, NoData)
       /\ BridgeYield(NoData, decodeOk)
       /\ UNCHANGED <<responseOpen, responseClosedBy>>
  ELSE /\ hpc' = "reading"
       /\ UNCHANGED <<hyield, responseOpen, responseClosedBy, bpc, loopState,
                      loopCloses, out, error>>

(* One iteration of the for loop of lines 52-69 on the next chunk. *)
RecvChunk(kind, decodeOk) ==
  /\ bpc = "pumping"
  /\ hpc = "reading"
  /\ Len(received) < MaxFrames
  /\ received' = Append(received, kind)
  /\ LET pos == Len(received) + 1
         first == first_message_received \/ Decodes(kind)
     IN /\ first_message_received' = first
        /\ IF kind \in {"data", "fin"} /\ Decodes(kind) /\ HasFinishReason(kind)
           THEN (* line 62: return, without yielding *)
                /\ hpc' = "done"
                /\ responseOpen' = FALSE
                /\ responseClosedBy' = "with"
                /\ hyield' = hyield
                /\ BridgeExhausted
           ELSE IF kind \in {"data", "fin"} /\ Decodes(kind)
           THEN (* line 64: yield the delta; resumed, the guard of line 68
                   is false, since lines 58-59 set the flag *)
                /\ hpc' = "yielded"
                /\ hyield' = Append(hyield, pos)
                /\ BridgeYield(pos, decodeOk)
                /\ UNCHANGED <<responseOpen, responseClosedBy>>
           ELSE SkipFrame(kind, first, decodeOk)
  /\ UNCHANGED <<start_time, now, extraNext, httpStatus>>

(* response.iter_raw() is exhausted: the for loop and the `with` end, the
   handler returns (end of line 69). *)
StreamEnd ==
  /\ bpc = "pumping"
  /\ hpc = "reading"
  /\ hpc' = "done"
  /\ responseOpen' = FALSE
  /\ responseClosedBy' = "with"
  /\ BridgeExhausted
  /\ UNCHANGED <<received, first_message_received, start_time, now, hyield,
                 extraNext, httpStatus>>

(* response.iter_raw() raises (a read timeout, a broken connection): the
   `with` exits and lines 74-76 re-raise. *)
ReadError ==
  /\ bpc = "pumping"
  /\ hpc = "reading"
  /\ hpc' = "raised"
  /\ responseOpen' = FALSE
  /\ responseClosedBy' = "with"
  /\ BridgeRaised("TransportError")
  /\ UNCHANGED <<received, first_message_received, start_time, now, hyield,
                 extraNext, httpStatus>>

(* Time passes. *)
Tick ==
  /\ now + ClockStep <= MaxNow
  /\ now' = now + ClockStep
  /\ UNCHANGED <<hpc, received, first_message_received, start_time, responseOpen,
                 responseClosedBy, hyield, bpc, loopState, loopCloses, out, error,
                 extraNext, httpStatus>>

(* After the sync generator ended with the handler still suspended in its
   `with` block, nothing in lines 164-177 exits that block: the response is
   released only when the abandoned generators are garbage collected. *)
GarbageCollect ==
  /\ BridgeEnded
  /\ responseOpen
  /\ responseOpen' = FALSE
  /\ responseClosedBy' = "gc"
  /\ UNCHANGED <<hpc, received, first_message_received, start_time, now, hyield,
                 bpc, loopState, loopCloses, out, error, extraNext, httpStatus>>

HttpNext ==
  \/ CallerNext /\ UNCHANGED notHttp
  \/ CallerClose /\ UNCHANGED notHttp
  \/ CallerNextAfterEnd /\ UNCHANGED notHttp
  \/ \E result \in {"ok", "status", "connect"} :
       HttpOpen(result) /\ UNCHANGED notHttp
  \/ \E kind \in ChunkKinds, decodeOk \in BOOLEAN :
       RecvChunk(kind, decodeOk) /\ UNCHANGED notHttp
  \/ StreamEnd /\ UNCHANGED notHttp
  \/ ReadError /\ UNCHANGED notHttp
  \/ Tick /\ UNCHANGED notHttp
  \/ GarbageCollect /\ UNCHANGED notHttp

(* ========================= broker transport =========================== *)

(* A result message, by what lines 118-121 make of it:
     bad   msgspec.json.decode raises
     data  decodes, finish_reason empty
     fin   decodes, finish_reason non-empty
   The delta.content of the message at position m is identified with m. *)
MsgKinds == {"bad", "data", "fin"}

Msgs == 1..MaxMsgs

NatsEnded == npc \in {"done", "cancelled", "raised"}

NatsInit ==
  /\ npc = "init"
  /\ ncOpen = FALSE
  /\ ncCloses = 0
  /\ subBound = FALSE
  /\ unsubs = 0
  /\ cur = 0
  /\ nyield = <<>>
  /\ nerror = "none"
  /\ timeouts = 0
  /\ requested = FALSE
  /\ msgs = <<>>
  /\ consumerExists = FALSE
  /\ createdAt = 0
  /\ deliveries = [m \in Msgs |-> 0]
  /\ pending = {}
  /\ redeliver = {}
  /\ acked = {}

(* ---- the broker ---- *)

(* A worker that has the request publishes a result message under the
   request's correlation id.  What the broker does after the handler has
   ended is not followed. *)
WorkerPublish(kind) ==
  /\ requested
  /\ ~NatsEnded
  /\ Len(msgs) < MaxMsgs
  /\ msgs' = Append(msgs, kind)
  /\ UNCHANGED <<npc, ncOpen, ncCloses, subBound, unsubs, cur, nyield, nerror,
                 timeouts, requested, consumerExists, createdAt, deliveries, pending,
                 redeliver, acked>>

(* The stream position a consumer created with the configured deliver
   policy starts at, in a stream that holds n messages: the first message of
   the stream for DeliverPolicy.ALL, the first one published after the
   consumer's creation for DeliverPolicy.NEW. *)
FirstSeq(n) == IF deliver_policy = "all" THEN 1 ELSE n + 1

(* The messages a pull can return: those waiting for redelivery, and the
   first message from the consumer's start position on that has not been
   delivered yet. *)
Deliverable ==
  redeliver \cup {m \in 1..Len(msgs) :
                    /\ consumerExists
                    /\ m >= FirstSeq(createdAt)
                    /\ deliveries[m] = 0
                    /\ \A k \in FirstSeq(createdAt)..(m - 1) : deliveries[k] > 0}

(* The consumer hands message m to a pull: one more delivery, and its
   ack_wait starts. *)
Deliver(m) ==
  /\ deliveries' = [deliveries EXCEPT ![m] = @ + 1]
  /\ pending' = pending \cup {m}
  /\ redeliver' = redeliver \ {m}

(* ack_wait (llms.py:102) passes for an unacknowledged message: it is
   delivered again unless it has been delivered max_deliver times
   (llms.py:104), and then the consumer drops it. *)
AckWaitExpire(m) ==
  /\ m \in pending
  /\ ~NatsEnded
  /\ pending' = pending \ {m}
  /\ redeliver' = IF deliveries[m] < max_deliver
                  THEN redeliver \cup {m}
                  ELSE redeliver
  /\ UNCHANGED <<npc, ncOpen, ncCloses, subBound, unsubs, cur, nyield, nerror,
                 timeouts, requested, msgs, consumerExists, createdAt, deliveries, acked>>

(* ---- nats_message_handler ---- *)

(* Variant of Finally: the cleanup in an `except Exception` clause, which
   GeneratorExit and CancelledError pass by. *)
FinallyBug(pos, err) ==
  IF subBound /\ pos # "cancelled"
  THEN /\ npc' = pos
       /\ nerror' = err
       /\ unsubs' = unsubs + 1
       /\ ncCloses' = ncCloses + 1
       /\ ncOpen' = FALSE
  ELSE /\ npc' = pos
       /\ nerror' = err
       /\ UNCHANGED <<unsubs, ncCloses, ncOpen>>

(* finally, llms.py:127-129, leaving the generator in `pos` with exception
   `err`.  With `sub` bound: unsubscribe, then close.  With `sub` unbound
   (add_consumer or pull_subscribe_bind raised) line 128 raises
   UnboundLocalError and line 129 is not reached. *)
Finally(pos, err) ==
  IF subBound
  THEN /\ npc' = pos
       /\ nerror' = err
       /\ unsubs' = unsubs + 1
       /\ ncCloses' = ncCloses + 1
       /\ ncOpen' = FALSE
  ELSE /\ npc' = "raised"
       /\ nerror' = "UnboundLocalError"
       /\ UNCHANGED <<unsubs, ncCloses, ncOpen>>

(* llms.py:88-91: the first __anext__ runs the generator up to nats.connect. *)
Connect(ok) ==
  /\ npc = "init"
  /\ IF ok
     THEN npc' = "connected" /\ ncOpen' = TRUE /\ nerror' = nerror
     ELSE npc' = "raised" /\ ncOpen' = ncOpen /\ nerror' = "BrokerError"
  /\ UNCHANGED <<ncCloses, subBound, unsubs, cur, nyield, timeouts, requested,
                 msgs, consumerExists, createdAt, deliveries, pending, redeliver, acked>>

(* llms.py:93-96: js.publish, before the try of line 106: an exception
   leaves the handler with no cleanup. *)
Publish(ok) ==
  /\ npc = "connected"
  /\ IF ok
     THEN npc' = "published" /\ requested' = TRUE /\ nerror' = nerror
     ELSE npc' = "raised" /\ requested' = requested /\ nerror' = "BrokerError"
  /\ UNCHANGED <<ncOpen, ncCloses, subBound, unsubs, cur, nyield, timeouts,
                 msgs, consumerExists, createdAt, deliveries, pending, redeliver, acked>>

(* llms.py:97-108: js.add_consumer, inside the try. *)
AddConsumer(ok) ==
  /\ npc = "published"
  /\ IF ok
     THEN /\ npc' = "consumer"
          /\ consumerExists' = TRUE
          /\ createdAt' = Len(msgs)
          /\ UNCHANGED <<nerror, unsubs, ncCloses, ncOpen>>
     ELSE /\ Finally("raised", "BrokerError")
          /\ UNCHANGED <<consumerExists, createdAt>>
  /\ UNCHANGED <<subBound, cur, nyield, timeouts, requested, msgs, deliveries,
                 pending, redeliver, acked>>

(* llms.py:109-112: js.pull_subscribe_bind. *)
Bind(ok) ==
  /\ npc = "consumer"
  /\ IF ok
     THEN /\ npc' = "fetching"
          /\ subBound' = TRUE
          /\ UNCHANGED <<nerror, unsubs, ncCloses, ncOpen>>
     ELSE /\ Finally("raised", "BrokerError")
          /\ subBound' = subBound
  /\ UNCHANGED <<cur, nyield, timeouts, requested, msgs, consumerExists, createdAt,
                 deliveries, pending, redeliver, acked>>

(* Variant of OnMessage: the message is acknowledged in the except clause
   of lines 123-124 too. *)
OnMessageBug(m) ==
  IF msgs[m] = "bad"
  THEN /\ acked' = acked \cup {m}
       /\ UNCHANGED <<npc, nerror, unsubs, ncCloses, ncOpen, cur, nyield>>
  ELSE IF msgs[m] = "fin"
  THEN /\ Finally("done", "none")
       /\ UNCHANGED <<cur, nyield, acked>>
  ELSE /\ npc' = "yielded"
       /\ cur' = m
       /\ nyield' = Append(nyield, m)
       /\ UNCHANGED <<nerror, unsubs, ncCloses, ncOpen, acked>>

(* llms.py:116-124 on a fetched message m: decode, return on a
   finish_reason, else yield the delta; a decode failure is caught and
   printed, and the message is not acknowledged. *)
OnMessage(m) ==
  IF msgs[m] = "bad"
  THEN UNCHANGED <<npc, nerror, unsubs, ncCloses, ncOpen, cur, nyield, acked>>
  ELSE IF msgs[m] = "fin"
  THEN /\ Finally("done", "none")
       /\ UNCHANGED <<cur, nyield, acked>>
  ELSE /\ npc' = "yielded"
       /\ cur' = m
       /\ nyield' = Append(nyield, m)
       /\ UNCHANGED <<nerror, unsubs, ncCloses, ncOpen, acked>>

(* llms.py:115-124: sub.fetch(1) returns message m. *)
Fetch(m) ==
  /\ npc = "fetching"
  /\ m \in Deliverable
  /\ Deliver(m)
  /\ OnMessage(m)
  /\ timeouts' = 0
  /\ UNCHANGED <<subBound, requested, msgs, consumerExists, createdAt>>

(* Variant of FetchTimeout: the timeout is not caught by line 125 and
   leaves the handler through the finally. *)
FetchTimeoutBug ==
  /\ npc = "fetching"
  /\ Deliverable = {}
  /\ timeouts < MaxTimeouts
  /\ timeouts' = timeouts + 1
  /\ Finally("raised", "TimeoutError")
  /\ UNCHANGED <<subBound, cur, nyield, requested, msgs, consumerExists, createdAt,
                 deliveries, pending, redeliver, acked>>

(* llms.py:115, 125-126: no message within the pull's wait: sub.fetch raises
   nats.errors.TimeoutError, a subclass of asyncio.TimeoutError, which is
   the builtin TimeoutError named by line 125 (Python 3.11 and later):
   continue. *)
FetchTimeout ==
  /\ npc = "fetching"
  /\ Deliverable = {}
  /\ timeouts < MaxTimeouts
  /\ timeouts' = timeouts + 1
  /\ UNCHANGED <<npc, ncOpen, ncCloses, subBound, unsubs, cur, nyield, nerror,
                 requested, msgs, consumerExists, createdAt, deliveries, pending,
                 redeliver, acked>>

(* llms.py:115, 127-129: sub.fetch raises something else: a broker error,
   or CancelledError when the task awaiting it is cancelled.  Neither is
   caught by line 125; the finally runs and the exception propagates. *)
FetchError(err) ==
  /\ npc = "fetching"
  /\ Finally(IF err = "CancelledError" THEN "cancelled" ELSE "raised", err)
  /\ UNCHANGED <<subBound, cur, nyield, timeouts, requested, msgs,
                 consumerExists, createdAt, deliveries, pending, redeliver, acked>>

(* llms.py:122-124: the caller resumes the generator after the yield:
   await msg.ack().  A failing ack raises inside the try of line 117 and is
   caught and printed by lines 123-124. *)
Resume(ackOk) ==
  /\ npc = "yielded"
  /\ npc' = "fetching"
  /\ cur' = 0
  /\ IF ackOk
     THEN /\ acked' = acked \cup {cur}
          /\ pending' = pending \ {cur}
          /\ redeliver' = redeliver \ {cur}
     ELSE UNCHANGED <<acked, pending, redeliver>>
  /\ UNCHANGED <<ncOpen, ncCloses, subBound, unsubs, nyield, nerror, timeouts,
                 requested, msgs, consumerExists, createdAt, deliveries>>

(* The caller closes the generator suspended at line 121: GeneratorExit is
   no Exception, so line 123 does not catch it and the finally runs. *)
Cancel ==
  /\ npc = "yielded"
  /\ Finally("cancelled", "none")
  /\ UNCHANGED <<subBound, cur, nyield, timeouts, requested, msgs,
                 consumerExists, createdAt, deliveries, pending, redeliver, acked>>

NatsNext ==
  \/ \E ok \in BOOLEAN : Connect(ok) /\ UNCHANGED notNats
  \/ \E ok \in BOOLEAN : Publish(ok) /\ UNCHANGED notNats
  \/ \E ok \in BOOLEAN : AddConsumer(ok) /\ UNCHANGED notNats
  \/ \E ok \in BOOLEAN : Bind(ok) /\ UNCHANGED notNats
  \/ \E m \in Msgs : Fetch(m) /\ UNCHANGED notNats
  \/ FetchTimeout /\ UNCHANGED notNats
  \/ \E err \in {"BrokerError", "CancelledError"} :
       FetchError(err) /\ UNCHANGED notNats
  \/ \E ackOk \in BOOLEAN : Resume(ackOk) /\ UNCHANGED notNats
  \/ Cancel /\ UNCHANGED notNats
  \/ \E kind \in MsgKinds : WorkerPublish(kind) /\ UNCHANGED notNats
  \/ \E m \in Msgs : AckWaitExpire(m) /\ UNCHANGED notNats

(* ===================== perform_inference (llms.py:199-232) ============== *)

NoRequest == [stream |-> FALSE, model |-> "none", correlation_id |-> 0]

(* llms.py:27 *)
model_mappings ==
  [n \in {"nesaorg_Llama-3.2-1B-Instruct-Encrypted"} |->
     "meta-llama/Llama-3.2-1B-Instruct"]

(* The names perform_inference is called with: the registered one, one that
   is not in the mapping, and the default None. *)
ModelNames == {"nesaorg_Llama-3.2-1B-Instruct-Encrypted", "gpt2", "None"}

MaxUuids == 4

Uuids == 1..MaxUuids

InferIdle ==
  /\ ipc = "none"
  /\ model_name = "none"
  /\ inf_request = NoRequest
  /\ issued = {}
  /\ ierror = "none"

(* A call of perform_inference: a generator that has not run yet, in a
   process that has drawn some uuids before. *)
InferInit ==
  /\ ipc = "created"
  /\ model_name \in ModelNames
  /\ inf_request = NoRequest
  /\ issued \in {1..k : k \in 0..(MaxUuids - 1)}
  /\ ierror = "none"

(* Variant of ResolveModel: model_mappings.get(name, name). *)
ResolveModelBug(name) ==
  IF name \in DOMAIN model_mappings THEN model_mappings[name] ELSE name

(* llms.py:221: model_mappings[model_name]; "KeyError" when it raises. *)
ResolveModel(name) ==
  IF name \in DOMAIN model_mappings THEN model_mappings[name] ELSE "KeyError"

(* llms.py:222: what uuid.uuid4() can return: an id not returned before. *)
FreshUuids == Uuids \ issued

(* The first next() on the generator: lines 209-230.  The prompt is
   assembled and tokenized, then the keyword arguments of LLMInference are
   evaluated in order: stream, model (the lookup of line 221, which raises
   KeyError for a name that is not in the mapping), correlation_id.  With
   the request built, line 231 creates the sync generator. *)
PerformInference(id) ==
  /\ ipc = "created"
  /\ IF ResolveModel(model_name) = "KeyError"
     THEN /\ ipc' = "failed"
          /\ ierror' = "KeyError"
          /\ UNCHANGED <<inf_request, issued>>
     ELSE /\ id \in FreshUuids
          /\ ipc' = "streaming"
          /\ inf_request' = [stream |-> TRUE,
                             model |-> ResolveModel(model_name),
                             correlation_id |-> id]
          /\ issued' = issued \cup {id}
          /\ ierror' = ierror
  /\ model_name' = model_name
  /\ UNCHANGED notInfer

(* llms.py:231-232: the tokens of process_stream_sync are passed on. *)
InferStream ==
  /\ ipc = "streaming"
  /\ HttpNext

InferNext ==
  \/ \E id \in Uuids : PerformInference(id)
  \/ InferStream

(* ========================== specifications ============================ *)

Pending == <<"pending">>

PureIdle ==
  /\ call = <<"none">>
  /\ returned = Pending

(* ============================ pure functions ============================ *)
(* A text is a sequence of characters.  "NUL" is the control character
   U+0000, "U+00E9" a non-ASCII letter, "U+226A" the character named by the
   entity &ll; every other character is printable ASCII. *)

MaxText == 4

MaxHistory == 2

MaxLookback == 3

Chars == {"&", "l", "t", ";", "<", " ", "NUL", "U+00E9"}

SeqsUpTo(S, n) == UNION {[1..k -> S] : k \in 0..n}

Texts == SeqsUpTo(Chars, MaxText)

StartsWith(s, p) == Len(s) >= Len(p) /\ SubSeq(s, 1, Len(p)) = p

Drop(s, n) == SubSeq(s, n + 1, Len(s))

(* html.unescape over Chars: the references it knows there are &lt; &ll;
   and the legacy &lt without semicolon, which also matches as a prefix of
   a longer name; anything else is copied. *)
RECURSIVE unescape(_)
unescape(s) ==
  IF s = <<>> THEN <<>>
  ELSE IF StartsWith(s, <<"&", "l", "t", ";">>)
    THEN <<"<">> \o unescape(Drop(s, 4))
  ELSE IF StartsWith(s, <<"&", "l", "t">>)
    THEN <<"<">> \o unescape(Drop(s, 3))
  ELSE IF StartsWith(s, <<"&", "l", "l", ";">>)
    THEN <<"U+226A">> \o unescape(Drop(s, 4))
  ELSE <<Head(s)>> \o unescape(Tail(s))

IsPrintable(c) == c \notin {"NUL", "U+00E9", "U+226A"}

(* re.sub(r'[^ -~]', '', s) *)
printable(s) == SelectSeq(s, IsPrintable)

(* unicodedata.normalize('NFKC', s): none of the characters above has a
   compatibility decomposition, so each is its own normal form. *)
NFKC(c) == c

RECURSIVE normalized(_)
normalized(s) ==
  IF s = <<>> THEN <<>> ELSE <<NFKC(Head(s))>> \o normalized(Tail(s))

RECURSIVE lstrip(_)
lstrip(s) == IF s # <<>> /\ Head(s) = " " THEN lstrip(Tail(s)) ELSE s

RECURSIVE rstrip(_)
rstrip(s) ==
  IF s # <<>> /\ s[Len(s)] = " " THEN rstrip(SubSeq(s, 1, Len(s) - 1)) ELSE s

strip(s) == rstrip(lstrip(s))

clean_string(message) == strip(normalized(printable(unescape(message))))

(* history[-lookback:] as Python computes it: a negative start counts from
   the end and is clamped at 0, and -0 is 0, the start of the list. *)
SliceFrom(history, start) ==
  LET n == Len(history)
      from == IF start < 0
                THEN (IF n + start < 0 THEN 0 ELSE n + start)
                ELSE (IF start > n THEN n ELSE start)
  IN  Drop(history, from)

Message(role, text) == [role |-> role, content |-> clean_string(text)]

RECURSIVE PairMessages(_)
PairMessages(history) ==
  IF history = <<>> THEN <<>>
  ELSE <<Message("user", Head(history)[1]),
         Message("assistant", Head(history)[2])>>
       \o PairMessages(Tail(history))

generate_prompt_template(current_msg, system_prompt, history, lookback, use_memory) ==
  LET window == SliceFrom(history, 0 - lookback)
      messages == IF use_memory THEN PairMessages(window) ELSE <<>>
  IN  <<Message("system", system_prompt)>> \o messages
      \o <<Message("user", current_msg)>>

(* Inputs of generate_prompt_template. *)
PromptTexts == {<<"h", "i">>, <<" ", "b", "y", "e">>}

Histories == SeqsUpTo(PromptTexts \X PromptTexts, MaxHistory)

(* nesa.backend.utils.sanitize_subject_token on the model ids used here:
   the reserved delimiter "." is escaped as "#a#". *)
sanitize_subject_token ==
  [m \in {"meta-llama/Llama-3.2-1B-Instruct", "gpt2", "mistralai/Mistral-7B-v0.1"} |->
     CASE m = "meta-llama/Llama-3.2-1B-Instruct" -> "meta-llama/Llama-3#a#2-1B-Instruct"
       [] m = "gpt2" -> "gpt2"
       [] m = "mistralai/Mistral-7B-v0.1" -> "mistralai/Mistral-7B-v0#a#1"]

ModelIds == DOMAIN sanitize_subject_token

(* A subject is its sequence of "."-separated tokens. *)
publish_subject(agent_uuid, sanitized_model) ==
  <<"inference", <<"agent-by-nesa-agent-worker-", agent_uuid>>, "private",
    "base", "request", "meta-llama/llama-3#a#2-1b-instruct-he", "cuda">>

consume_subjectBug(agent_uuid, sanitized_model, correlation_id) ==
  <<"inference", <<"agent-by-nesa-agent-worker-", 1>>, "private",
    "base", "result", "meta-llama/llama-3#a#2-1b-instruct-he", 1>>

consume_subject(agent_uuid, sanitized_model, correlation_id) ==
  <<"inference", <<"agent-by-nesa-agent-worker-", agent_uuid>>, "private",
    "base", "result", "meta-llama/llama-3#a#2-1b-instruct-he", correlation_id>>

Returned(value) == <<"returned", value>>

HasReturned == returned[1] = "returned"

PureInit ==
  /\ returned = Pending
  /\ call \in {<<"clean_string", message>> : message \in Texts}
         \cup {<<"generate_prompt_template", current_msg, system_prompt,
                 history, lookback, use_memory>> :
                   current_msg \in PromptTexts, system_prompt \in PromptTexts,
                   history \in Histories, lookback \in 0..MaxLookback,
                   use_memory \in BOOLEAN}
         \cup {<<"nats_subjects", agent_uuid, model, correlation_id>> :
                   agent_uuid \in Uuids, model \in ModelIds,
                   correlation_id \in Uuids}

CallCleanString ==
  /\ call[1] = "clean_string"
  /\ ~HasReturned
  /\ returned' = Returned(clean_string(call[2]))
  /\ UNCHANGED call
  /\ UNCHANGED notPure

CallGeneratePromptTemplate ==
  /\ call[1] = "generate_prompt_template"
  /\ ~HasReturned
  /\ returned' = Returned(generate_prompt_template(call[2], call[3], call[4],
                                                   call[5], call[6]))
  /\ UNCHANGED call
  /\ UNCHANGED notPure

(* nats_message_handler up to the subjects it publishes and filters on. *)
CallNatsSubjects ==
  /\ call[1] = "nats_subjects"
  /\ ~HasReturned
  /\ LET agent_uuid == call[2]
         sanitized_model == sanitize_subject_token[call[3]]
     IN  returned' = Returned(
           [publish_subject |-> publish_subject(agent_uuid, sanitized_model),
            consume_subject |-> consume_subject(agent_uuid, sanitized_model, call[4])])
  /\ UNCHANGED call
  /\ UNCHANGED notPure

PureNext ==
  \/ CallCleanString
  \/ CallGeneratePromptTemplate
  \/ CallNatsSubjects

(* ===================== two concurrent broker requests ==================== *)
(* Two calls of nats_message_handler run interleaved on one broker: each
   has its own locals (agent_uuid, node_id, nc, sub); the broker holds the
   work stream, the result stream and the consumers by name. *)

Reqs == {1, 2}

MaxResults == 2

NoFilter == <<>>

RequestModel == "meta-llama/Llama-3.2-1B-Instruct"

ConcIdle ==
  /\ rpc = [r \in Reqs |-> "none"]
  /\ ragent = [r \in Reqs |-> 0]
  /\ rnode = [r \in Reqs |-> 0]
  /\ rcorr = [r \in Reqs |-> 0]
  /\ rconn = [r \in Reqs |-> 0]
  /\ connections = <<>>
  /\ consumers = [n \in Uuids |-> NoFilter]
  /\ rsub = [r \in Reqs |-> 0]
  /\ requests = {}
  /\ results = <<>>
  /\ cdelivered = [n \in Uuids |-> {}]
  /\ ryield = [r \in Reqs |-> <<>>]

(* The two requests carry distinct correlation ids. *)
ConcInit ==
  /\ rpc = [r \in Reqs |-> "init"]
  /\ ragent = [r \in Reqs |-> 0]
  /\ rnode = [r \in Reqs |-> 0]
  /\ rcorr \in {f \in [Reqs -> Uuids] : f[1] # f[2]}
  /\ rconn = [r \in Reqs |-> 0]
  /\ connections = <<>>
  /\ consumers = [n \in Uuids |-> NoFilter]
  /\ rsub = [r \in Reqs |-> 0]
  /\ requests = {}
  /\ results = <<>>
  /\ cdelivered = [n \in Uuids |-> {}]
  /\ ryield = [r \in Reqs |-> <<>>]

UsedUuids == {ragent[r] : r \in Reqs} \cup {rnode[r] : r \in Reqs}

Least(S) == CHOOSE x \in S : \A y \in S : x <= y

(* llms.py:81-86: uuid.uuid4() twice.  The ids are interchangeable, so the
   least unused one stands for whichever fresh id the call returns. *)
ReqStart(r, agent, node) ==
  /\ rpc[r] = "init"
  /\ agent \notin UsedUuids
  /\ agent = Least(Uuids \ UsedUuids)
  /\ node \notin UsedUuids \cup {agent}
  /\ node = Least(Uuids \ (UsedUuids \cup {agent}))
  /\ ragent' = [ragent EXCEPT ![r] = agent]
  /\ rnode' = [rnode EXCEPT ![r] = node]
  /\ rpc' = [rpc EXCEPT ![r] = "started"]
  /\ UNCHANGED <<rcorr, rconn, connections, consumers, rsub, requests, results,
                 cdelivered, ryield>>
  /\ UNCHANGED notConc

(* llms.py:88-91: nats.connect makes a new connection for the call. *)
ReqConnect(r) ==
  /\ rpc[r] = "started"
  /\ connections' = Append(connections, "open")
  /\ rconn' = [rconn EXCEPT ![r] = Len(connections) + 1]
  /\ rpc' = [rpc EXCEPT ![r] = "connected"]
  /\ UNCHANGED <<ragent, rnode, rcorr, consumers, rsub, requests, results,
                 cdelivered, ryield>>
  /\ UNCHANGED notConc

(* llms.py:93-96 *)
ReqPublish(r) ==
  /\ rpc[r] = "connected"
  /\ requests' = requests \cup
       {[subject |-> publish_subject(ragent[r], sanitize_subject_token[RequestModel]),
         correlation_id |-> rcorr[r]]}
  /\ rpc' = [rpc EXCEPT ![r] = "published"]
  /\ UNCHANGED <<ragent, rnode, rcorr, rconn, connections, consumers, rsub,
                 results, cdelivered, ryield>>
  /\ UNCHANGED notConc

(* llms.py:97-108: the consumer is named node_id and filters on
   consume_subject. *)
ReqAddConsumer(r) ==
  /\ rpc[r] = "published"
  /\ consumers' = [consumers EXCEPT ![rnode[r]] =
       consume_subject(ragent[r], sanitize_subject_token[RequestModel], rcorr[r])]
  /\ rpc' = [rpc EXCEPT ![r] = "consumer"]
  /\ UNCHANGED <<ragent, rnode, rcorr, rconn, connections, rsub, requests,
                 results, cdelivered, ryield>>
  /\ UNCHANGED notConc

(* llms.py:109-112 *)
ReqBind(r) ==
  /\ rpc[r] = "consumer"
  /\ rsub' = [rsub EXCEPT ![r] = rnode[r]]
  /\ rpc' = [rpc EXCEPT ![r] = "bound"]
  /\ UNCHANGED <<ragent, rnode, rcorr, rconn, connections, consumers, requests,
                 results, cdelivered, ryield>>
  /\ UNCHANGED notConc

(* llms.py:127-129 on the call's own sub and nc. *)
ReqFinally(r) ==
  /\ rsub' = [rsub EXCEPT ![r] = 0]
  /\ connections' = [connections EXCEPT ![rconn[r]] = "closed"]
  /\ rpc' = [rpc EXCEPT ![r] = "done"]

(* What the consumer `name` is delivered next: the first message of the
   result stream that matches its filter and it has not had. *)
NextFor(name) ==
  {i \in 1..Len(results) :
     /\ results[i].subject = consumers[name]
     /\ i \notin cdelivered[name]
     /\ \A k \in 1..(i - 1) :
          results[k].subject = consumers[name] => k \in cdelivered[name]}

(* llms.py:113-121: one pull; a finish_reason ends the stream, anything
   else is yielded. *)
ReqFetch(r, i) ==
  /\ rpc[r] = "bound"
  /\ i \in NextFor(rsub[r])
  /\ cdelivered' = [cdelivered EXCEPT ![rsub[r]] = @ \cup {i}]
  /\ IF results[i].kind = "fin"
       THEN /\ ReqFinally(r)
            /\ UNCHANGED ryield
       ELSE /\ ryield' = [ryield EXCEPT ![r] = Append(@, i)]
            /\ rpc' = [rpc EXCEPT ![r] = "yielded"]
            /\ UNCHANGED <<rsub, connections>>
  /\ UNCHANGED <<ragent, rnode, rcorr, rconn, consumers, requests, results>>
  /\ UNCHANGED notConc

(* llms.py:122: the caller asks for the next delta; the message is acked. *)
ReqResume(r) ==
  /\ rpc[r] = "yielded"
  /\ rpc' = [rpc EXCEPT ![r] = "bound"]
  /\ UNCHANGED <<ragent, rnode, rcorr, rconn, connections, consumers, rsub,
                 requests, results, cdelivered, ryield>>
  /\ UNCHANGED notConc

(* The caller closes the generator at the yield. *)
ReqCancel(r) ==
  /\ rpc[r] = "yielded"
  /\ ReqFinally(r)
  /\ UNCHANGED <<ragent, rnode, rcorr, rconn, consumers, requests, results,
                 cdelivered, ryield>>
  /\ UNCHANGED notConc

(* The subject a worker answers a request under: that of the request with
   "result" for "request" and the correlation id of the payload as the
   last token. *)
ResultSubject(q) ==
  [q.subject EXCEPT ![5] = "result", ![7] = q.correlation_id]

(* A worker answers a request of the work stream with one more fragment. *)
WorkerResult(agent, correlation, kind) ==
  /\ Len(results) < MaxResults
  /\ \E q \in requests :
       /\ q.subject[2][2] = agent
       /\ q.correlation_id = correlation
       /\ results' = Append(results, [subject |-> ResultSubject(q), kind |-> kind])
  /\ UNCHANGED <<rpc, ragent, rnode, rcorr, rconn, connections, consumers, rsub,
                 requests, cdelivered, ryield>>
  /\ UNCHANGED notConc

ConcNext ==
  \/ \E r \in Reqs : \E agent, node \in Uuids : ReqStart(r, agent, node)
  \/ \E r \in Reqs : ReqConnect(r)
  \/ \E r \in Reqs : ReqPublish(r)
  \/ \E r \in Reqs : ReqAddConsumer(r)
  \/ \E r \in Reqs : ReqBind(r)
  \/ \E r \in Reqs : \E i \in 1..MaxResults : ReqFetch(r, i)
  \/ \E r \in Reqs : ReqResume(r)
  \/ \E r \in Reqs : ReqCancel(r)
  \/ \E agent, correlation \in Uuids : \E kind \in {"delta", "fin"} :
       WorkerResult(agent, correlation, kind)

Init == HttpInit /\ NatsInit /\ InferIdle /\ PureIdle /\ ConcIdle

(* The HTTP transport under the sync bridge. *)
Spec == Init /\ [][HttpNext]_vars

(* The broker transport. *)
SpecNats == Init /\ [][NatsNext]_vars

(* perform_inference over the HTTP transport. *)
InitInfer == HttpInit /\ NatsInit /\ InferInit /\ PureIdle /\ ConcIdle

SpecInfer == InitInfer /\ [][InferNext]_vars

(* The pure functions, each applied once to an input. *)
InitPure == HttpInit /\ NatsInit /\ InferIdle /\ PureInit /\ ConcIdle

SpecPure == InitPure /\ [][PureNext]_vars

(* Two broker requests interleaved on one broker. *)
InitConc == HttpInit /\ NatsInit /\ InferIdle /\ PureIdle /\ ConcInit

SpecConc == InitConc /\ [][ConcNext]_vars

(* ======================= claims on the HTTP transport ===================== *)

(* Positions of the chunks of `received` that satisfy Test, in order. *)
PositionsOf(Test(_)) ==
  SelectSeq([i \in 1..Len(received) |-> i], LAMBDA i : Test(received[i]))

IsData(kind) == kind = "data"
IsFragment(kind) == kind \in {"data", "fin"}
IsDelta(y) == y # NoData

(* The number of times the handler has yielded the 'no data' signal. *)
NoDataCount == Cardinality({i \in 1..Len(hyield) : hyield[i] = NoData})

(* A step of the handler that received a chunk of kind k. *)
Received(k) ==
  /\ Len(received') = Len(received) + 1
  /\ received'[Len(received')] = k

(* C1: when a stream of well-formed fragments ends on its first fragment
   with a finish_reason, the handler has yielded the delta of every
   fragment up to and including that terminal one, in order. *)
C1_TerminalDeltaYielded ==
  (/\ hpc = "done"
   /\ received # <<>>
   /\ received[Len(received)] = "fin"
   /\ \A i \in 1..Len(received) : IsFragment(received[i]))
  => hyield = PositionsOf(IsFragment)

(* C2: with no fragment received within the first-token timeout, the handler
   yields the 'no data' signal exactly once and then terminates: it never
   yields the signal twice and never goes on reading after it. *)
C2_NoDataOnceThenStop ==
  /\ NoDataCount <= 1
  /\ NoDataCount = 1 => hpc \in {"yieldedNone", "done"}

(* C6: when the caller closes the sync generator early, the open HTTP
   response has been torn down by the time control returns, by the exit of
   its `with` block and not by garbage collection. *)
C6_TornDownOnEarlyStop ==
  (bpc = "closed" /\ loopState # "none")
  => (~responseOpen /\ responseClosedBy = "with")

(* C7: for every started iteration the private event loop is closed exactly
   once, whether the transport is exhausted, the caller stops early or an
   exception propagates; the end is reached once, and after it the sequence
   yields nothing and closes nothing further. *)
C7_LoopClosedExactlyOnce ==
  /\ [](/\ loopCloses <= 1
        /\ (loopCloses = 1) = (BridgeEnded /\ loopState # "none")
        /\ BridgeEnded /\ loopState # "none" => loopState = "closed"
        /\ bpc = "exhausted" => hpc = "done"
        /\ bpc = "failed" => error # "none")
  /\ [][BridgeEnded => /\ bpc' = bpc
                       /\ out' = out
                       /\ loopCloses' = loopCloses
                       /\ loopState' = loopState
                       /\ hyield' = hyield]_vars

C7_Witness ==
  /\ bpc = "failed"
  /\ error = "DecodeError"
  /\ Len(out) >= 1
  /\ loopCloses = 1
  /\ extraNext = 1

(* C8: once a fragment has been successfully received, no chunk makes the
   handler yield the 'no data' signal or end because of the timeout,
   however much time has passed. *)
C8_GuardOnlyBeforeFirstFragment ==
  [][first_message_received' =>
       /\ NoDataCount' = NoDataCount
       /\ (hpc = "reading" /\ hpc' \in {"done", "raised"}) =>
            \/ Received("fin")
            \/ received' = received]_vars

C8_Witness ==
  /\ first_message_received
  /\ now - start_time > timeout
  /\ hpc = "reading"
  /\ Len(received) >= 2
  /\ received[Len(received)] \in {"blank", "bad"}
  /\ NoDataCount = 0

(* C9 as claimed: a malformed frame at any position yields nothing for that
   frame and does not terminate the sequence. *)
C9_MalformedYieldsNothing ==
  [][Received("bad") => hyield' = hyield /\ hpc' = "reading"]_vars

(* C9 as amended: a malformed frame never terminates the sequence and never
   has a delta yielded for it; the one thing the handler can yield on it is
   the 'no data' signal, and only while no fragment has been received and
   the first-token timeout has passed.  The deltas yielded are those of the
   valid non-terminal frames received, all of them and in order. *)
C9_MalformedSkipped ==
  /\ [](SelectSeq(hyield, IsDelta) = PositionsOf(IsData))
  /\ [][Received("bad") =>
          /\ hpc' \in {"reading", "yieldedNone"}
          /\ \/ hyield' = hyield
             \/ /\ hyield' = Append(hyield, NoData)
                /\ ~first_message_received
                /\ now - start_time > timeout]_vars

C9_Witness ==
  /\ Len(received) = 3
  /\ received[1] = "data"
  /\ received[2] = "bad"
  /\ received[3] = "data"
  /\ hyield = <<1, 3>>

(* ====================== claims on the broker transport ==================== *)

(* A step in which the consumer delivered message m to the handler. *)
Delivered(m) == deliveries'[m] = deliveries[m] + 1

Yielded(m) == \E i \in 1..Len(nyield) : nyield[i] = m

(* C3: a message is acknowledged only after it decoded and its delta was
   yielded; a message whose decode fails is never acknowledged, and the
   handler goes on pulling after it. *)
C3_AckOnlyAfterDecodeAndYield ==
  /\ [](\A m \in acked : m <= Len(msgs) /\ msgs[m] = "data" /\ Yielded(m))
  /\ [][\A m \in Msgs :
          /\ (m \in acked' /\ m \notin acked) => (npc = "yielded" /\ cur = m)
          /\ (Delivered(m) /\ msgs[m] = "bad") =>
               /\ npc' = "fetching"
               /\ acked' = acked
               /\ nyield' = nyield
               /\ m \in pending']_vars

C3_Witness ==
  /\ npc = "fetching"
  /\ \E b, d \in 1..Len(msgs) :
       /\ msgs[b] = "bad" /\ deliveries[b] >= 1 /\ b \notin acked
       /\ msgs[d] = "data" /\ d \in acked

(* C4: once the pull subscription exists, every exit of the handler
   (terminal fragment, exception mid-stream, cancellation) has unsubscribed
   the consumer subscription and closed the connection, each exactly once,
   and neither happens before the exit. *)
C4_CleanupOnEveryStreamExit ==
  /\ unsubs <= 1
  /\ ncCloses <= 1
  /\ (subBound /\ NatsEnded) => (unsubs = 1 /\ ncCloses = 1 /\ ~ncOpen)
  /\ (subBound /\ ~NatsEnded) => (unsubs = 0 /\ ncCloses = 0 /\ ncOpen)

C4_Witness ==
  /\ npc = "cancelled"
  /\ nerror = "none"
  /\ Len(nyield) = 1
  /\ unsubs = 1
  /\ ncCloses = 1
  /\ ~ncOpen

(* C5: after nats.connect succeeded, no exit of the handler leaves the
   connection open. *)
C5_ConnectionClosedOnEveryExit ==
  NatsEnded => ~ncOpen

(* C10: a message that is never acknowledged is delivered to the handler at
   most 3 times (the consumer's max_deliver); after the third delivery it is
   never delivered again, and each delivery of an undecodable message
   leaves the handler pulling. *)
C10_AtMostMaxDeliverDeliveries ==
  /\ [](\A m \in Msgs :
          /\ deliveries[m] <= 3
          /\ (deliveries[m] = 3 /\ m \notin acked) => m \notin redeliver)
  /\ [][\A m \in Msgs :
          /\ deliveries[m] = 3 => deliveries'[m] = 3
          /\ (Delivered(m) /\ msgs[m] = "bad") => npc' = "fetching"]_vars

C10_Witness ==
  /\ Len(msgs) >= 2
  /\ msgs[1] = "bad"
  /\ deliveries[1] = 3
  /\ 1 \notin pending
  /\ 1 \notin redeliver
  /\ 1 \notin acked
  /\ msgs[2] = "data"
  /\ 2 \in acked
  /\ npc = "fetching"

(* A step in which a pull of the handler timed out. *)
PullTimedOut == timeouts' = timeouts + 1

(* C11: a pull timeout is never an error: it yields nothing, does not end
   the stream, runs no cleanup, and leaves the handler at another pull, for
   any number of consecutive timeouts. *)
C11_PullTimeoutRetries ==
  [][PullTimedOut =>
       /\ npc' = "fetching"
       /\ nyield' = nyield
       /\ nerror' = "none"
       /\ unsubs' = 0
       /\ ncCloses' = 0
       /\ ncOpen'
       /\ acked' = acked]_vars

C11_Witness ==
  /\ timeouts = 2
  /\ npc = "fetching"
  /\ Len(nyield) >= 1
  /\ ncOpen
  /\ unsubs = 0

(* A step in which the acknowledgment of the yielded message failed: the
   handler was resumed, not closed, and the message stayed unacknowledged. *)
AckFailed ==
  /\ npc = "yielded"
  /\ npc' # "cancelled"
  /\ cur \notin acked'

(* C12: a broker error other than a pull timeout, raised by the fetch or by
   the acknowledgment, ends the stream and reaches the caller; the stream
   never continues after it. *)
C12_BrokerErrorsPropagate ==
  [][AckFailed => (npc' = "raised" /\ nerror' # "none")]_vars

(* C19: no result message's delta is yielded more than once. *)
C19_NoDeltaYieldedTwice ==
  \A i, j \in 1..Len(nyield) : nyield[i] = nyield[j] => i = j

(* The result messages the consumer has not delivered yet. *)
Undelivered == {m \in 1..Len(msgs) : deliveries[m] = 0}

(* The first of them in stream order. *)
FirstUndelivered == CHOOSE m \in Undelivered : \A k \in Undelivered : m <= k

(* C20: no result message is lost, whether it was published before or after
   the consumer was created: messages are delivered in stream order from
   the first message of the stream without skipping any, and whenever the
   handler is at a pull with a message not delivered yet, the first such
   message is one the pull can return; a handler that ended on a terminal
   fragment has been delivered every message up to it. *)
C20_NoResultLost ==
  /\ \A m \in 1..Len(msgs) :
       deliveries[m] > 0 => \A k \in 1..m : deliveries[k] > 0
  /\ (npc = "fetching" /\ Undelivered # {}) =>
       /\ FirstUndelivered \in Deliverable
       /\ ENABLED Fetch(FirstUndelivered)
  /\ npc = "done" =>
       \E m \in 1..Len(msgs) :
         /\ msgs[m] = "fin"
         /\ \A k \in 1..m : deliveries[k] > 0

(* Two messages were in the stream before add_consumer completed, and both
   have been delivered to the handler. *)
C20_Witness ==
  /\ createdAt = 2
  /\ nyield = <<1, 2>>
  /\ acked = {1}
  /\ npc = "yielded"

(* C16: when the endpoint answers with an error status, the handler yields
   nothing and the error that reaches the caller through the sync bridge is
   the HTTP status error itself, not another error in its place. *)
C16_StatusErrorReachesCaller ==
  httpStatus = "error" =>
    /\ hyield = <<>>
    /\ out = <<>>
    /\ bpc = "failed"
    /\ error = "HTTPStatusError"

(* ===================== claims on perform_inference ====================== *)

(* C17: for a model name that is not in the mapping, perform_inference
   fails with the lookup's error before a request is built, before the
   transport is opened or anything is sent, and without a token; for a name
   in the mapping the request carries the mapped identifier, stream=true and
   a correlation id that was not issued before. *)
C17_UnknownModelFailsFirst ==
  /\ [](model_name \notin DOMAIN model_mappings =>
          /\ ipc \in {"created", "failed"}
          /\ ipc = "failed" => ierror = "KeyError"
          /\ inf_request = NoRequest
          /\ bpc = "created"
          /\ loopState = "none"
          /\ hpc = "init"
          /\ httpStatus = "none"
          /\ out = <<>>)
  /\ [](ipc = "streaming" =>
          /\ model_name \in DOMAIN model_mappings
          /\ inf_request.model = model_mappings[model_name]
          /\ inf_request.stream = TRUE
          /\ inf_request.correlation_id \in issued)
  /\ [][(ipc = "created" /\ ipc' = "streaming") =>
          /\ inf_request'.correlation_id \notin issued
          /\ issued' = issued \cup {inf_request'.correlation_id}]_vars
  /\ [][ipc # "streaming" => UNCHANGED httpVars]_vars

C17_Witness ==
  /\ model_name = "gpt2"
  /\ ipc = "failed"
  /\ ierror = "KeyError"
  /\ inf_request = NoRequest
  /\ issued = {1, 2}
  /\ bpc = "created"

(* ======================= claims on the pure functions ==================== *)

(* C13: generate_prompt_template returns the system message, then the
   messages of the last min(lookback, len(history)) history pairs in their
   order when use_memory is true and none when it is false, then the current
   user message. *)
C13_LastLookbackPairs ==
  (call[1] = "generate_prompt_template" /\ HasReturned) =>
    LET history == call[4]
        lookback == call[5]
        kept == IF lookback < Len(history) THEN lookback ELSE Len(history)
        last == SubSeq(history, Len(history) - kept + 1, Len(history))
    IN  returned[2] = <<Message("system", call[3])>>
                      \o (IF call[6] THEN PairMessages(last) ELSE <<>>)
                      \o <<Message("user", call[2])>>

(* C14: clean_string is idempotent: cleaning a cleaned text changes
   nothing. *)
C14_CleanStringIdempotent ==
  (call[1] = "clean_string" /\ HasReturned) =>
    clean_string(returned[2]) = returned[2]

(* C18: the publish subject carries the sanitized model id of the request
   as its model token, so for one agent id another model id gives another
   subject. *)
C18_SubjectFollowsModel ==
  (call[1] = "nats_subjects" /\ HasReturned) =>
    /\ returned[2].publish_subject[6] = sanitize_subject_token[call[3]]
    /\ \A other \in ModelIds \ {call[3]} :
         publish_subject(call[2], sanitize_subject_token[other])
           # returned[2].publish_subject

(* ================== claims on two concurrent requests ==================== *)

Conn(r) == connections[rconn[r]]

(* The handler of r leaves: by a finish_reason or by the caller's close. *)
Leaves(r) == rpc[r] # "done" /\ rpc'[r] = "done"

(* C15: two interleaved broker requests with distinct correlation ids have
   distinct connections, consumer names and filter subjects; a consumer is
   delivered, and a request yields, only result messages published under
   its own correlation id; and when one request cleans up, the other's
   subscription and connection stay as they are. *)
C15_ConcurrentRequestsIndependent ==
  /\ [](\A r, s \in Reqs : r # s =>
          /\ (rconn[r] # 0 /\ rconn[s] # 0) => rconn[r] # rconn[s]
          /\ (rnode[r] # 0 /\ rnode[s] # 0) => rnode[r] # rnode[s]
          /\ (rpc[r] \notin {"init", "started", "connected", "published"}
               /\ rpc[s] \notin {"init", "started", "connected", "published"})
                => consumers[rnode[r]] # consumers[rnode[s]]
          /\ rsub[r] # 0 => rsub[r] # rnode[s])
  /\ [](\A r \in Reqs :
          /\ rnode[r] # 0 =>
                \A i \in cdelivered[rnode[r]] : results[i].subject[7] = rcorr[r]
          /\ \A k \in 1..Len(ryield[r]) :
                results[ryield[r][k]].subject[7] = rcorr[r])
  /\ [][\A r, s \in Reqs : (r # s /\ Leaves(r)) =>
          /\ rsub'[s] = rsub[s]
          /\ rconn[s] # 0 => Conn(s)' = Conn(s)
          /\ rnode[s] # 0 => consumers'[rnode[s]] = consumers[rnode[s]]]_vars

(* One request has yielded its fragment and cleaned up while the other,
   having yielded its own fragment, is still subscribed and connected. *)
C15_Witness ==
  /\ rpc[1] = "done"
  /\ rpc[2] = "yielded"
  /\ Len(ryield[1]) = 1
  /\ Len(ryield[2]) = 1
  /\ Conn(1) = "closed"
  /\ Conn(2) = "open"
  /\ rsub[2] = rnode[2]

====
